---- MODULE Spec2Model ----
(***************************************************************************)
(* RepoPulse: the daily forecast run (scripts/daily.py) and the scoring    *)
(* run (scripts/score.py) as a state machine over the dated files they     *)
(* read and write.                                                         *)
(*                                                                         *)
(* Dates are day numbers.  Probabilities are fixed-point integers in units *)
(* of 1/10000 (the four decimals daily.py stores), Brier scores in units   *)
(* of 1/1000000 and mean absolute errors in units of 1/1000 (the decimals  *)
(* score.py stores).  A dated file family is a function whose DOMAIN is    *)
(* the set of dates for which the file exists.                             *)
(*                                                                         *)
(* Fields a prediction carries that no run reads back (html_url, the       *)
(* embedded features, the model notes) are left out of the records.        *)
(***************************************************************************)
EXTENDS Integers, Sequences, FiniteSets, TLC

\* ------------------------------------------------------------------ bounds

\* Last day number the clock reaches.
MaxDay == 8

\* Number of script invocations (daily.py or score.py) in a behaviour.
MaxRuns == 3

\* ------------------------------------------------------- program constants

\* score.py:29 timedelta(days=7)
ScoreLagDays == 7

\* daily.py:82 max(200, ...)
ThresholdFloor == 200

\* daily.py:87 max(25, ...)
BandFloor == 25

\* daily.py:135 [:5]
TopN == 5

\* Fixed-point scale of a probability (daily.py:112 round(p_breakout, 4)).
ProbScale == 10000

\* ------------------------------------------------------------------ inputs

\* Repository identifiers the search can return.
Repos == {"a/r1", "b/r2"}

\* What the search call returns as items (daily.py:52), in order: nothing,
\* or both repositories.
ItemLists == {<<>>, <<"a/r1", "b/r2">>}

\* Answers of GET /repos/{full_name}: the star and fork counts, and the whole
\* days elapsed since created_at and pushed_at when the answer is read.
\* A brand-new repository with no stars, and one with an odd star count
\* above twice the threshold floor.
TelemetryVals ==
    { [stars |-> 0,   forks |-> 0,  created_ago |-> 0,  pushed_ago |-> 0],
      [stars |-> 401, forks |-> 50, created_ago |-> 10, pushed_ago |-> 0] }

\* raise_for_status() raising (daily.py:24, score.py:21).
Fail == [stars |-> -1, forks |-> -1, created_ago |-> -1, pushed_ago |-> -1]

Responses == TelemetryVals \cup {Fail}

VARIABLES
    day,        \* datetime.now(timezone.utc).date()
    runs,       \* script invocations so far
    predFiles,  \* predictions/predictions_<date>.json
    snapFiles,  \* data/snapshots_<date>.json
    postFiles,  \* posts/post_<date>.json
    outcomes,   \* data/outcomes.csv
    summaries,  \* data/summary_<date>.json
    lastRun     \* the last invocation: script, clock, calls made, how it ended

vars == <<day, runs, predFiles, snapFiles, postFiles, outcomes, summaries, lastRun>>

\* ----------------------------------------------------------------- helpers

Max(a, b) == IF a >= b THEN a ELSE b

Min(a, b) == IF a <= b THEN a ELSE b

Abs(a) == IF a >= 0 THEN a ELSE -a

\* Python's round() of the non-negative rational num/den: to the nearest
\* integer, ties to the even one.
RoundHalfEven(num, den) ==
    LET q == num \div den
        r == num % den
    IN  IF 2 * r < den THEN q
        ELSE IF 2 * r > den THEN q + 1
        ELSE IF q % 2 = 0 THEN q ELSE q + 1

\* open(path, "w") + json.dump: the file for date d is created or replaced.
WriteFile(files, d, content) ==
    [x \in (DOMAIN files) \cup {d} |-> IF x = d THEN content ELSE files[x]]

RECURSIVE SumSeq(_)
SumSeq(s) == IF s = <<>> THEN 0 ELSE Head(s) + SumSeq(Tail(s))

\* Index of the first failed answer in a sequence of answers, 0 if none.
FirstFail(answers) ==
    LET bad == {i \in 1..Len(answers) : answers[i] = Fail}
    IN  IF bad = {} THEN 0 ELSE CHOOSE i \in bad : \A j \in bad : i <= j

\* The gh_get calls of a loop that stops at the first raise.
CallLog(answers) ==
    LET k == FirstFail(answers)
    IN  [i \in 1..(IF k = 0 THEN Len(answers) ELSE k) |->
            IF answers[i] = Fail THEN "fail" ELSE "ok"]

\* ------------------------------------------------------- daily.py: the model

\* daily.py:28-29
clamp(x, lo, hi) == Max(lo, Min(hi, x))

\* daily.py:70
age_days(t) == Max(1, t.created_ago)

\* daily.py:71
since_push_days(t) == Max(0, t.pushed_ago)

\* daily.py:75-79 and 32-33: logistic(z) of
\*   z = 0.9 log10(stars/age + 0.01) - 0.25 since_push + 0.15 log10(forks + 1),
\* in units of 1/ProbScale.  log10 and exp have no integer counterpart: the
\* value is tabulated at the answers of TelemetryVals, from the formula.
logistic_z(stars_now, age, since_push, forks_now) ==
    CASE <<stars_now, age, since_push, forks_now>> = <<0, 1, 0, 0>>     -> 1419
      [] <<stars_now, age, since_push, forks_now>> = <<401, 10, 0, 50>> -> 8454

\* daily.py:80
p_breakout(t) ==
    clamp(logistic_z(t.stars, age_days(t), since_push_days(t), t.forks), 0, ProbScale)

\* daily.py:82 int(max(200, 0.5 * stars_now)): int() drops the half of an
\* odd star count.
breakout_threshold(stars_now) ==
    IF stars_now > 2 * ThresholdFloor THEN stars_now \div 2 ELSE ThresholdFloor

\* daily.py:84-86 with stars_per_day = stars_now / age_days (daily.py:73)
stars_pred_7d(stars_now, age, p) ==
    RoundHalfEven(stars_now * 10 * ProbScale * age
                      + 7 * stars_now * (8 * ProbScale + 6 * p),
                  10 * ProbScale * age)

\* daily.py:87
band(threshold, p) ==
    RoundHalfEven(Max(BandFloor * 4 * ProbScale, threshold * (ProbScale - p)),
                  4 * ProbScale)

\* daily.py:105-126, one element of predictions
Prediction(today, t, full_name) ==
    LET stars_now == t.stars
        p         == p_breakout(t)
        threshold == breakout_threshold(stars_now)
        pred      == stars_pred_7d(stars_now, age_days(t), p)
        b         == band(threshold, p)
    IN  [ date_utc              |-> today,
          full_name             |-> full_name,
          stars_now             |-> stars_now,
          breakout_threshold_7d |-> threshold,
          p_breakout_7d         |-> p,
          stars_pred_7d         |-> pred,
          stars_pred_low_7d     |-> Max(0, pred - b),
          stars_pred_high_7d    |-> pred + b,
          model                 |-> "heuristic_logistic_v1" ]

\* daily.py:91-103, one element of snapshot
Snapshot(today, t, full_name) ==
    [ date_utc    |-> today,
      full_name   |-> full_name,
      stars_now   |-> t.stars,
      forks_now   |-> t.forks,
      created_ago |-> t.created_ago,
      pushed_ago  |-> t.pushed_ago ]

\* A prediction put in front of a list sorted by falling probability: it
\* passes the elements of higher probability and stays ahead of its equals
\* (sorted() is stable, also with reverse=True).
RECURSIVE InsertByP(_, _)
InsertByP(x, s) ==
    IF s = <<>> THEN <<x>>
    ELSE IF Head(s).p_breakout_7d > x.p_breakout_7d
         THEN <<Head(s)>> \o InsertByP(x, Tail(s))
         ELSE <<x>> \o s

\* daily.py:135 sorted(predictions, key=p_breakout_7d, reverse=True)
RECURSIVE SortedByP(_)
SortedByP(s) ==
    IF s = <<>> THEN <<>>
    ELSE InsertByP(Head(s), SortedByP(Tail(s)))

\* daily.py:135-165: the post, its text as the ranked lines of the top five.
Post(today, predictions) ==
    LET ranked == SortedByP(predictions)
        top    == SubSeq(ranked, 1, Min(TopN, Len(ranked)))
    IN  [ post_id  |-> today,
          date_utc |-> today,
          text     |-> [i \in 1..Len(top) |->
                          [ rank      |-> i,
                            full_name |-> top[i].full_name,
                            percent   |-> RoundHalfEven(100 * top[i].p_breakout_7d, ProbScale),
                            stars_now |-> top[i].stars_now,
                            est       |-> top[i].stars_pred_7d,
                            low       |-> top[i].stars_pred_low_7d,
                            high      |-> top[i].stars_pred_high_7d ]] ]

\* The files written as the loop goes: the repositories answered before the
\* failing fetch are on disk when gh_get raises.
DailyAbort_partial(today, items, answers, calls) ==
    LET k    == FirstFail(answers)
        done == IF k = 0 THEN 0 ELSE k - 1
    IN  /\ lastRun' = [script |-> "daily", exit |-> "error",
                       out |-> "HTTPError", calls |-> calls]
        /\ predFiles' = WriteFile(predFiles, today,
                            [i \in 1..done |-> Prediction(today, answers[i], items[i])])
        /\ snapFiles' = WriteFile(snapFiles, today,
                            [i \in 1..done |-> Snapshot(today, answers[i], items[i])])
        /\ UNCHANGED postFiles

\* daily.py:22-25, 47-57: gh_get raises and main() ends with the traceback;
\* nothing of lines 128-165 has run.
DailyAbort(today, items, answers, calls) ==
    /\ lastRun' = [script |-> "daily", exit |-> "error",
                   out |-> "HTTPError", calls |-> calls]
    /\ UNCHANGED <<predFiles, snapFiles, postFiles>>

\* daily.py:59-169: every fetch answered; the three files of the day are written.
DailyWrite(today, items, answers, calls) ==
    LET predictions == [i \in 1..Len(items) |-> Prediction(today, answers[i], items[i])]
        snapshot    == [i \in 1..Len(items) |-> Snapshot(today, answers[i], items[i])]
    IN  /\ snapFiles' = WriteFile(snapFiles, today, snapshot)
        /\ predFiles' = WriteFile(predFiles, today, predictions)
        /\ postFiles' = WriteFile(postFiles, today, Post(today, predictions))
        /\ lastRun' = [script |-> "daily", exit |-> "ok",
                       out |-> "Wrote", calls |-> calls]

\* daily.py:40-169 main(): one invocation of the daily script.
DailyRun ==
    /\ runs < MaxRuns
    /\ runs' = runs + 1
    /\ UNCHANGED <<day, outcomes, summaries>>
    /\ \/ DailyAbort(day, <<>>, <<>>, <<"fail">>)
       \/ \E items \in ItemLists :
            \E answers \in [1..Len(items) -> Responses] :
               IF FirstFail(answers) # 0
               THEN DailyAbort(day, items, answers, <<"ok">> \o CallLog(answers))
               ELSE DailyWrite(day, items, answers, <<"ok">> \o CallLog(answers))

\* ------------------------------------------------------- score.py: the model

\* The target date taken one day short of the lag.
target_date_short(now) == now - (ScoreLagDays - 1)

\* score.py:29
target_date(now) == now - ScoreLagDays

\* score.py:24-25, in units of 1/ProbScale^2
brier(p, y) == (p - y * ProbScale) * (p - y * ProbScale)

\* score.py:44-76, one element of rows
OutcomeRow(target, now, p, stars_then) ==
    LET stars_at_pred == p.stars_now
        delta         == stars_then - stars_at_pred
        threshold     == p.breakout_threshold_7d
        y             == IF delta >= threshold THEN 1 ELSE 0
        prob          == p.p_breakout_7d
        stars_pred    == p.stars_pred_7d
    IN  [ prediction_date_utc |-> target,
          scored_date_utc     |-> now,
          full_name           |-> p.full_name,
          stars_at_prediction |-> stars_at_pred,
          stars_after_7d      |-> stars_then,
          delta_stars         |-> delta,
          breakout_threshold  |-> threshold,
          breakout_actual     |-> y,
          p_breakout_7d       |-> prob,
          brier_score         |-> RoundHalfEven(brier(prob, y), 100),
          stars_pred_7d       |-> stars_pred,
          abs_error_stars     |-> Abs(stars_then - stars_pred),
          model               |-> p.model ]

\* score.py:54-55, 78 and 92: sum(brier_scores) / max(1, n), six decimals
mean_brier(preds, rows) ==
    RoundHalfEven(
        SumSeq([i \in 1..Len(rows) |-> brier(preds[i].p_breakout_7d, rows[i].breakout_actual)]),
        100 * Max(1, Len(rows)))

\* score.py:58-59, 79 and 93: sum(abs_errors) / max(1, n), three decimals
mean_mae(rows) ==
    RoundHalfEven(1000 * SumSeq([i \in 1..Len(rows) |-> rows[i].abs_error_stars]),
                  Max(1, Len(rows)))

\* score.py:88-94
Summary(target, now, preds, rows) ==
    [ prediction_date_utc |-> target,
      scored_date_utc     |-> now,
      n                   |-> Len(rows),
      mean_brier          |-> mean_brier(preds, rows),
      mean_mae_stars      |-> mean_mae(rows) ]

\* score.py:82 open(OUTCOMES_CSV, "a"): the file exists from here on.
OpenAppend(file) == [file EXCEPT !.exists = TRUE]

\* The ledger opened with "w" instead of "a": the rows replace the file.
AppendRows_truncating(file, rows) ==
    [ exists |-> TRUE,
      header |-> TRUE,
      rows   |-> rows ]

\* score.py:81-86: the header goes in only when the file did not exist; the
\* rows go behind what the file holds.
AppendRows(file, rows) ==
    [ exists |-> TRUE,
      header |-> IF file.exists THEN file.header ELSE TRUE,
      rows   |-> file.rows \o rows ]

\* The existence check left out: open(pred_path) raises FileNotFoundError.
ScoreNoFile_raising(now) ==
    /\ lastRun' = [script |-> "score", exit |-> "error",
                   out |-> "FileNotFoundError", calls |-> <<>>]
    /\ UNCHANGED <<outcomes, summaries>>

\* score.py:32-34: no predictions file for the target date.
ScoreNoFile(now) ==
    /\ lastRun' = [script |-> "score", exit |-> "ok",
                   out |-> "No predictions file", calls |-> <<>>]
    /\ UNCHANGED <<outcomes, summaries>>

\* score.py:19-22, 45: gh_get raises inside the loop; main() ends with the
\* traceback before line 78.
ScoreAbort(now, calls) ==
    /\ lastRun' = [script |-> "score", exit |-> "error",
                   out |-> "HTTPError", calls |-> calls]
    /\ UNCHANGED <<outcomes, summaries>>

\* score.py:78-102: every fetch answered.  With rows empty, rows[0] on line 83
\* raises IndexError inside the with block, after the file was opened.
ScoreWrite(now, preds, answers, calls) ==
    LET target == target_date(now)
        rows   == [i \in 1..Len(preds) |->
                      OutcomeRow(target, now, preds[i], answers[i].stars)]
    IN  IF rows = <<>>
        THEN /\ outcomes' = OpenAppend(outcomes)
             /\ UNCHANGED summaries
             /\ lastRun' = [script |-> "score", exit |-> "error",
                            out |-> "IndexError", calls |-> calls]
        ELSE /\ outcomes' = AppendRows(outcomes, rows)
             /\ summaries' = WriteFile(summaries, target, Summary(target, now, preds, rows))
             /\ lastRun' = [script |-> "score", exit |-> "ok",
                            out |-> "Scored", calls |-> calls]

\* score.py:27-102 main(): one invocation of the scoring script.
ScoreRun ==
    /\ runs < MaxRuns
    /\ runs' = runs + 1
    /\ UNCHANGED <<day, predFiles, snapFiles, postFiles>>
    /\ IF target_date(day) \notin DOMAIN predFiles
       THEN ScoreNoFile(day)
       ELSE LET preds == predFiles[target_date(day)]
            IN  \E answers \in [1..Len(preds) -> Responses] :
                   IF FirstFail(answers) # 0
                   THEN ScoreAbort(day, CallLog(answers))
                   ELSE ScoreWrite(day, preds, answers, CallLog(answers))

\* ---------------------------------------------------------- the state machine

\* The UTC date moves on to the next day.
Tick ==
    /\ day < MaxDay
    /\ day' = day + 1
    /\ UNCHANGED <<runs, predFiles, snapFiles, postFiles, outcomes, summaries, lastRun>>

\* A fresh checkout: no dated file, no ledger, nothing run yet.
Init ==
    /\ day = 0
    /\ runs = 0
    /\ predFiles = <<>>
    /\ snapFiles = <<>>
    /\ postFiles = <<>>
    /\ outcomes = [exists |-> FALSE, header |-> FALSE, rows |-> <<>>]
    /\ summaries = <<>>
    /\ lastRun = [script |-> "none", exit |-> "ok", out |-> "", calls |-> <<>>]

Next == Tick \/ DailyRun \/ ScoreRun

Spec == Init /\ [][Next]_vars

\* ------------------------------------------------------------- the claims

\* The step is one invocation of score.py.
ScoreStep == runs' = runs + 1 /\ lastRun'.script = "score"

\* The step is one invocation of daily.py.
DailyStep == runs' = runs + 1 /\ lastRun'.script = "daily"

\* The prediction date a scoring run of today is about.
DueDate == day - ScoreLagDays

CallFailed(calls) == \E i \in 1..Len(calls) : calls[i] = "fail"

IsPrefix(s, t) == Len(s) <= Len(t) /\ \A i \in 1..Len(s) : t[i] = s[i]

\* rows holds an Outcome row for the prediction of full_name made on date d.
HasRow(rows, d, full_name) ==
    \E j \in 1..Len(rows) :
        rows[j].prediction_date_utc = d /\ rows[j].full_name = full_name

\* C1: a scoring run for a prediction date that was scored before appends no
\* row to the ledger and leaves the mean_brier and mean_mae_stars of that
\* date's Summary as they were.
C1_ScoringIdempotent ==
    [][ (ScoreStep /\ DueDate \in DOMAIN predFiles /\ DueDate \in DOMAIN summaries)
          => /\ outcomes'.rows = outcomes.rows
             /\ summaries'[DueDate].mean_brier = summaries[DueDate].mean_brier
             /\ summaries'[DueDate].mean_mae_stars = summaries[DueDate].mean_mae_stars
      ]_vars

\* C2: the ledger is append-only: whatever a step does, the ledger file does
\* not disappear, its header line is as it was, and the rows it held are
\* still there, unchanged and in place, new rows coming only behind them.
C2_LedgerAppendOnly ==
    [][ /\ outcomes.exists => (outcomes'.exists /\ outcomes'.header = outcomes.header)
        /\ IsPrefix(outcomes.rows, outcomes'.rows)
      ]_vars

\* C2 happens: a second scoring run has put a row behind the row an earlier
\* run wrote for the same repository, with another star count.
C2_Witness ==
    \E i, j \in 1..Len(outcomes.rows) :
        /\ i < j
        /\ outcomes.rows[i].full_name = outcomes.rows[j].full_name
        /\ outcomes.rows[i].stars_after_7d # outcomes.rows[j].stars_after_7d

\* C3: in a scoring run where a fetch fails, the failing row alone is
\* skipped: every repository whose fetch was answered gets its Outcome row
\* appended by the run, and a Summary for the date stands afterwards, its n
\* the number of rows scored.
C3_FailedFetchSkipsRow ==
    [][ (ScoreStep /\ DueDate \in DOMAIN predFiles /\ CallFailed(lastRun'.calls))
          => /\ \A i \in 1..Len(lastRun'.calls) :
                   lastRun'.calls[i] = "ok" =>
                       \E j \in (Len(outcomes.rows) + 1)..Len(outcomes'.rows) :
                           /\ outcomes'.rows[j].prediction_date_utc = DueDate
                           /\ outcomes'.rows[j].full_name = predFiles[DueDate][i].full_name
             /\ DueDate \in DOMAIN summaries'
             /\ summaries'[DueDate].n =
                    Cardinality({i \in 1..Len(lastRun'.calls) : lastRun'.calls[i] = "ok"})
      ]_vars

\* C4: a scoring run that finds no prediction file for its target date ends
\* normally with the message that there is nothing to score, having made no
\* fetch, and leaves the ledger and the summaries as they were.
C4_MissingBatchNoOp ==
    [][ (ScoreStep /\ DueDate \notin DOMAIN predFiles)
          => /\ lastRun'.exit = "ok"
             /\ lastRun'.out = "No predictions file"
             /\ lastRun'.calls = <<>>
             /\ outcomes' = outcomes
             /\ summaries' = summaries
      ]_vars

\* C4 happens: the last run was a scoring run without a batch, over a ledger
\* that already holds rows.
C4_Witness ==
    /\ lastRun.script = "score"
    /\ lastRun.out = "No predictions file"
    /\ outcomes.rows # <<>>

\* C5: a scoring run over a batch of zero predictions ends normally, writes
\* a Summary with n = 0, mean_brier = 0 and mean_mae_stars = 0, and appends
\* no row.
C5_EmptyBatchScored ==
    [][ (ScoreStep /\ DueDate \in DOMAIN predFiles /\ predFiles[DueDate] = <<>>)
          => /\ lastRun'.exit = "ok"
             /\ outcomes'.rows = outcomes.rows
             /\ DueDate \in DOMAIN summaries'
             /\ summaries'[DueDate].n = 0
             /\ summaries'[DueDate].mean_brier = 0
             /\ summaries'[DueDate].mean_mae_stars = 0
      ]_vars

\* C6: a stored prediction is immutable: whatever a step does, every
\* prediction record of every date is still stored for that date, unchanged.
C6_PredictionImmutable ==
    [][ \A d \in DOMAIN predFiles :
          /\ d \in DOMAIN predFiles'
          /\ \A i \in 1..Len(predFiles[d]) :
                \E j \in 1..Len(predFiles'[d]) : predFiles'[d][j] = predFiles[d][i]
      ]_vars

\* C7: a daily run in which a fetch fails stops at that fetch with an error
\* and leaves the prediction, snapshot and post files as they were.
C7_FailedDailyWritesNothing ==
    [][ (DailyStep /\ CallFailed(lastRun'.calls))
          => /\ lastRun'.exit = "error"
             /\ lastRun'.calls[Len(lastRun'.calls)] = "fail"
             /\ predFiles' = predFiles
             /\ snapFiles' = snapFiles
             /\ postFiles' = postFiles
      ]_vars

\* C7 happens: the last run was a daily run whose search was answered and
\* whose fetch of a repository failed, on a day that already had its batch.
C7_Witness ==
    /\ lastRun.script = "daily"
    /\ lastRun.exit = "error"
    /\ Len(lastRun.calls) >= 2
    /\ day \in DOMAIN predFiles
    /\ predFiles[day] # <<>>
    /\ day \in DOMAIN snapFiles
    /\ day \in DOMAIN postFiles

\* C8 as stated: after a scoring run whose fetches all succeed, the ledger
\* holds an Outcome row for each prediction of every batch that is seven or
\* more days old.
C8_EveryDueBatchScored ==
    [][ (ScoreStep /\ ~CallFailed(lastRun'.calls))
          => \A d \in DOMAIN predFiles :
                day - d >= ScoreLagDays =>
                    \A i \in 1..Len(predFiles[d]) :
                        HasRow(outcomes'.rows, d, predFiles[d][i].full_name)
      ]_vars

\* C8 amended: after a scoring run whose fetches all succeed, the ledger
\* holds an Outcome row for each prediction of the batch that is exactly
\* seven days old.
C8_BatchOfSevenDaysAgoScored ==
    [][ (ScoreStep /\ ~CallFailed(lastRun'.calls))
          => \A d \in DOMAIN predFiles :
                day - d = ScoreLagDays =>
                    \A i \in 1..Len(predFiles[d]) :
                        HasRow(outcomes'.rows, d, predFiles[d][i].full_name)
      ]_vars

\* C8 happens: a scoring run has ended normally and the ledger holds the
\* rows of the batch made seven days before it.
C8_Witness ==
    /\ lastRun.script = "score"
    /\ lastRun.exit = "ok"
    /\ lastRun.out = "Scored"
    /\ DueDate \in DOMAIN predFiles
    /\ predFiles[DueDate] # <<>>
    /\ \A i \in 1..Len(predFiles[DueDate]) :
          HasRow(outcomes.rows, DueDate, predFiles[DueDate][i].full_name)

\* C9: every stored prediction has breakout_threshold_7d >= 200,
\* breakout_threshold_7d >= 0.5 * stars_now, and
\* breakout_threshold_7d = max(200, round(0.5 * stars_now)).
C9_ThresholdBounds ==
    \A d \in DOMAIN predFiles :
        \A i \in 1..Len(predFiles[d]) :
            LET r == predFiles[d][i]
            IN  /\ r.breakout_threshold_7d >= ThresholdFloor
                /\ 2 * r.breakout_threshold_7d >= r.stars_now
                /\ r.breakout_threshold_7d
                       = Max(ThresholdFloor, RoundHalfEven(r.stars_now, 2))

\* C10: a scoring run over an existing batch is all-or-nothing: with a failed
\* fetch it ends with an error, no row appended and no Summary written; with
\* every fetch answered it appends one row per prediction, in batch order,
\* and writes a Summary whose n is the number of rows it appended.
C10_ScoringAllOrNothing ==
    [][ (ScoreStep /\ DueDate \in DOMAIN predFiles)
          => LET batch == predFiles[DueDate]
                 old   == Len(outcomes.rows)
             IN  IF CallFailed(lastRun'.calls)
                 THEN /\ lastRun'.exit = "error"
                      /\ outcomes'.rows = outcomes.rows
                      /\ summaries' = summaries
                 ELSE /\ IsPrefix(outcomes.rows, outcomes'.rows)
                      /\ Len(outcomes'.rows) = old + Len(batch)
                      /\ \A i \in 1..Len(batch) :
                            /\ outcomes'.rows[old + i].prediction_date_utc = DueDate
                            /\ outcomes'.rows[old + i].full_name = batch[i].full_name
                      /\ DueDate \in DOMAIN summaries'
                      /\ summaries'[DueDate].n = Len(batch)
      ]_vars

====
